---- MODULE Spec2Model ----
(***************************************************************************)
(* Node_classification.ipynb: semi-supervised node classification with a   *)
(* GraphSAGE model.  The notebook's own code is modelled: the construction *)
(* of GraphSAGEModel (the list of layers) and its forward loop, the index  *)
(* arrays made from the split masks, the loss wrapper                      *)
(* NodeClassification.forward, NCEvaluate, and the training cell.          *)
(*                                                                         *)
(* What the libraries compute is kept symbolic:                            *)
(*  - a forward pass of the stacked SAGEConv layers over the whole dataset *)
(*    returns some logits matrix (chosen from ForwardOutputs);             *)
(*  - CrossEntropyLoss is a function of its two arguments, so a loss is    *)
(*    represented by the pair of arguments it is applied to;               *)
(*  - the gradient buffer is the list of losses back-propagated into it    *)
(*    since it was last reset, and the parameters are the list of gradient *)
(*    buffers the optimizer has consumed, one per optimizer.step().        *)
(* Python indices are kept 0-based: labels, masks and logits are functions *)
(* on 0..NumNodes-1; numpy index arrays are sequences of such indices.     *)
(***************************************************************************)
EXTENDS Integers, Sequences, FiniteSets, TLC

\* ------------------------------------------------------------------ bounds
NumNodes == 3
MaxLayers == 3
MaxEpochs == 2

\* n_layers = 2, the notebook's hyperparameter
NLayersConfigured == 2

Nodes == 0 .. (NumNodes - 1)
Classes == {0, 1}
LogitVals == {0, 1}
MaskVals == {0, 1}

\* the chain graphs the layer stack is run on: long enough for one hop per layer
ChainNodes == 0 .. (MaxLayers + 1)
ChainEdges == {<<u, u + 1>> : u \in 0 .. MaxLayers}

VARIABLES
  pc,          \* position in the notebook
  n_layers,    \* GraphSAGEModel.__init__ argument
  layers,      \* self.layers (nn.ModuleList)
  i,           \* loop variable of the hidden-layer loop
  g,           \* the graph the forward pass runs over (set of edges)
  h,           \* forward(): layers applied so far and, per node, the nodes h draws on
  train_mask, val_mask, test_mask,
  train_idx, val_idx, test_idx,
  labels,      \* the global labels tensor
  labelsB,     \* the labels of a second run (same graph, features, parameters)
  logits,      \* the last output of model.gconv_model(g, features)
  n_epochs,
  it,          \* position of the iterator range(n_epochs)
  epoch,       \* the loop variable (-1: not bound yet)
  training,    \* nn.Module.training
  params,      \* model parameters: the optimizer steps applied so far
  grad,        \* .grad buffers: losses accumulated since the last zero_grad
  loss,
  paramsB, gradB, lossB,   \* the same three in the second run
  acc,
  out          \* lines printed by the training cell

buildVars == <<n_layers, layers, i, g, h>>
dataVars == <<train_mask, val_mask, test_mask, labels, labelsB, n_epochs>>
idxVars == <<train_idx, val_idx, test_idx>>
optVars == <<params, grad, paramsB, gradB>>
lossVars == <<loss, lossB>>
vars == <<pc, buildVars, dataVars, idxVars, optVars, lossVars, logits, it, epoch,
          training, acc, out>>

\* ------------------------------------------------------- GraphSAGEModel
InputLayer == [in_feats |-> "in_feats", out_feats |-> "n_hidden", activation |-> "activation"]
HiddenLayer == [in_feats |-> "n_hidden", out_feats |-> "n_hidden", activation |-> "activation"]
OutputLayer == [in_feats |-> "n_hidden", out_feats |-> "out_dim", activation |-> "None"]

\* range(n_layers) instead of range(n_layers - 1)
HiddenCountOneMore(n) == IF n > 0 THEN n ELSE 0

\* len(range(n_layers - 1))
HiddenCount(n) == IF n - 1 > 0 THEN n - 1 ELSE 0

Neighbours(gr, v) == {u \in ChainNodes : <<u, v>> \in gr \/ <<v, u>> \in gr}

\* one SAGEConv layer: a node's new vector is computed from its own vector and
\* its direct neighbours' vectors
SAGEConv(gr, hh) ==
  [applied |-> hh.applied + 1,
   dep |-> [v \in ChainNodes |->
              hh.dep[v] \cup UNION {hh.dep[u] : u \in Neighbours(gr, v)}]]

\* h = features
Features == [applied |-> 0, dep |-> [v \in ChainNodes |-> {v}]]

NoH == [applied |-> 0, dep |-> <<>>]

\* self.layers = nn.ModuleList(); append the input layer
InitInputLayer ==
  /\ pc = "ctor_input"
  /\ layers' = <<InputLayer>>
  /\ i' = 0
  /\ pc' = "ctor_hidden"
  /\ UNCHANGED <<n_layers, g, h, dataVars, idxVars, optVars, lossVars, logits, it,
                 epoch, training, acc, out>>

\* for i in range(n_layers - 1): append a hidden layer
InitHiddenLayer ==
  /\ pc = "ctor_hidden"
  /\ i < HiddenCount(n_layers)
  /\ layers' = Append(layers, HiddenLayer)
  /\ i' = i + 1
  /\ UNCHANGED <<pc, n_layers, g, h, dataVars, idxVars, optVars, lossVars, logits, it,
                 epoch, training, acc, out>>

\* the loop is exhausted: append the output layer; __init__ returns
InitOutputLayer ==
  /\ pc = "ctor_hidden"
  /\ ~(i < HiddenCount(n_layers))
  /\ layers' = Append(layers, OutputLayer)
  /\ pc' = "constructed"
  /\ UNCHANGED <<n_layers, i, g, h, dataVars, idxVars, optVars, lossVars, logits, it,
                 epoch, training, acc, out>>

\* forward(g, features) is called on the constructed model, for the first time or
\* again after an earlier call has returned: h = features
ForwardCall ==
  /\ pc \in {"constructed", "forward_returned"}
  /\ h' = Features
  /\ pc' = "forward_layers"
  /\ UNCHANGED <<n_layers, layers, i, g, dataVars, idxVars, optVars, lossVars, logits,
                 it, epoch, training, acc, out>>

\* for layer in self.layers: h = layer(g, h)
ForwardLayer ==
  /\ pc = "forward_layers"
  /\ h.applied < Len(layers)
  /\ h' = SAGEConv(g, h)
  /\ UNCHANGED <<pc, n_layers, layers, i, g, dataVars, idxVars, optVars, lossVars,
                 logits, it, epoch, training, acc, out>>

\* return h
ForwardReturn ==
  /\ pc = "forward_layers"
  /\ h.applied = Len(layers)
  /\ pc' = "forward_returned"
  /\ UNCHANGED <<buildVars, dataVars, idxVars, optVars, lossVars, logits, it, epoch,
                 training, acc, out>>

\* ------------------------------------------------------------ index arrays
RECURSIVE WhereShiftedFrom(_, _)
WhereShiftedFrom(mask, k) ==
  IF k >= NumNodes THEN <<>>
  ELSE (IF mask[k] > 0 THEN <<k + 1>> ELSE <<>>) \o WhereShiftedFrom(mask, k + 1)

\* positions counted from 1 instead of 0
WhereOneBased(mask) == WhereShiftedFrom(mask, 0)

RECURSIVE WhereFrom(_, _)
WhereFrom(mask, k) ==
  IF k >= NumNodes THEN <<>>
  ELSE (IF mask[k] > 0 THEN <<k>> ELSE <<>>) \o WhereFrom(mask, k + 1)

\* np.where(mask > 0)[0]: the positions of the true entries, ascending
Where(mask) == WhereFrom(mask, 0)

\* t[idx] for a tensor t and an index array idx
Slice(t, idx) == [k \in 1 .. Len(idx) |-> t[idx[k]]]

\* train_idx, val_idx, test_idx = np.where(... > 0)[0]
MakeIndex ==
  /\ pc = "index"
  /\ train_idx' = Where(train_mask)
  /\ val_idx' = Where(val_mask)
  /\ test_idx' = Where(test_mask)
  /\ pc' = "loop"
  /\ UNCHANGED <<buildVars, dataVars, optVars, lossVars, logits, it, epoch, training,
                 acc, out>>

\* ------------------------------------------------------- NodeClassification
\* the labels are not restricted to the index set
LossFcnAllLabels(lg, lab, idx) == <<Slice(lg, idx), lab>>

\* self.loss_fcn(logits[train_idx], labels[train_idx]): the loss, as the pair of
\* arguments CrossEntropyLoss is applied to
LossFcn(lg, lab, idx) == <<Slice(lg, idx), Slice(lab, idx)>>

\* what model.gconv_model(g, features) may return: any matrix with one row of
\* class scores per node
ForwardOutputs == [Nodes -> [Classes -> LogitVals]]

\* the local variable logits outside a call of NCEvaluate
NoLogits == [v \in Nodes |-> [c \in Classes |-> 0]]

\* ------------------------------------------------------------- NCEvaluate
RECURSIVE GCD(_, _)
GCD(a, b) == IF b = 0 THEN a ELSE GCD(b, a % b)

\* the number n / d (d > 0), in lowest terms
Ratio(n, d) == <<n \div GCD(n, d), d \div GCD(n, d)>>

RECURSIVE ArgMaxFrom(_, _, _)
ArgMaxFrom(row, c, best) ==
  IF c \notin Classes THEN best
  ELSE ArgMaxFrom(row, c + 1, IF row[c] > row[best] THEN c ELSE best)

\* torch.max(logits, dim=1)[1] for one row: the first maximal position
ArgMax(row) == ArgMaxFrom(row, 1, 0)

RECURSIVE SumTrue(_, _)
SumTrue(bs, k) == IF k = 0 THEN 0 ELSE (IF bs[k] THEN 1 ELSE 0) + SumTrue(bs, k - 1)

\* torch.sum(indices == test_labels) after the slicing by test_idx
Correct(lg, lab, idx) ==
  LET rows == Slice(lg, idx)
      test_labels == Slice(lab, idx)
      indices == [k \in 1 .. Len(idx) |-> ArgMax(rows[k])]
  IN SumTrue([k \in 1 .. Len(idx) |-> indices[k] = test_labels[k]], Len(idx))

\* the rows and labels are compared over all nodes, not over test_idx
CorrectUnsliced(lg, lab, idx) ==
  SumTrue([k \in 1 .. NumNodes |-> ArgMax(lg[k - 1]) = lab[k - 1]], NumNodes)

\* the divisor is len(labels), not len(test_labels)
AccuracyOverAll(lg, lab, idx) == Ratio(Correct(lg, lab, idx), NumNodes)

\* the count is taken over all nodes
AccuracyUnsliced(lg, lab, idx) == Ratio(CorrectUnsliced(lg, lab, idx), Len(idx))

\* correct.item() * 1.0 / len(test_labels), for a non-empty test_idx
Accuracy(lg, lab, idx) == Ratio(Correct(lg, lab, idx), Len(idx))

\* acc before any evaluation
NoAcc == <<>>

\* model.eval() of NCEvaluate, called at `at`
NCEvaluate_Eval(at, next) ==
  /\ pc = at
  /\ training' = FALSE
  /\ pc' = next
  /\ UNCHANGED <<buildVars, dataVars, idxVars, optVars, lossVars, logits, it, epoch,
                 acc, out>>

\* logits = model.gconv_model(g, features), under torch.no_grad()
NCEvaluate_Forward(at, next) ==
  /\ pc = at
  /\ logits' \in ForwardOutputs
  /\ pc' = next
  /\ UNCHANGED <<buildVars, dataVars, idxVars, optVars, lossVars, it, epoch, training,
                 acc, out>>

\* the evaluation also takes an optimizer step with the gradients at hand
NCEvaluate_ScoreAndStep(at, idx, next) ==
  /\ pc = at
  /\ acc' = Accuracy(logits, labels, idx)
  /\ params' = Append(params, grad)
  /\ paramsB' = Append(paramsB, gradB)
  /\ logits' = NoLogits
  /\ pc' = next
  /\ UNCHANGED <<buildVars, dataVars, idxVars, grad, gradB, lossVars, it, epoch,
                 training, out>>

\* the rest of NCEvaluate: slice by test_idx, arg-max, count, divide, return (the
\* local logits are gone).  With an empty index array the division raises
\* ZeroDivisionError and nothing is returned.
NCEvaluate_Score(at, idx, next) ==
  /\ pc = at
  /\ acc' = IF Len(idx) = 0 THEN acc ELSE Accuracy(logits, labels, idx)
  /\ logits' = NoLogits
  /\ pc' = IF Len(idx) = 0 THEN "raised" ELSE next
  /\ UNCHANGED <<buildVars, dataVars, idxVars, optVars, lossVars, it, epoch,
                 training, out>>

\* ---------------------------------------------------------- training cell
\* range(n_epochs + 1)
LoopHasNextOneMore == it <= n_epochs

\* for epoch in range(n_epochs): the iterator has another value
LoopHasNext == it < n_epochs

LoopNext ==
  /\ pc = "loop"
  /\ LoopHasNext
  /\ epoch' = it
  /\ it' = it + 1
  /\ pc' = "train_mode"
  /\ UNCHANGED <<buildVars, dataVars, idxVars, optVars, lossVars, logits, training,
                 acc, out>>

LoopExit ==
  /\ pc = "loop"
  /\ ~LoopHasNext
  /\ pc' = "print_blank"
  /\ UNCHANGED <<buildVars, dataVars, idxVars, optVars, lossVars, logits, it, epoch,
                 training, acc, out>>

\* the call of model.train() is missing
ModelTrainSkipped ==
  /\ pc = "train_mode"
  /\ pc' = "forward"
  /\ UNCHANGED <<buildVars, dataVars, idxVars, optVars, lossVars, logits, it, epoch,
                 training, acc, out>>

\* model.train()
ModelTrain ==
  /\ pc = "train_mode"
  /\ training' = TRUE
  /\ pc' = "forward"
  /\ UNCHANGED <<buildVars, dataVars, idxVars, optVars, lossVars, logits, it, epoch,
                 acc, out>>

\* loss = model(g, features, train_idx): the logits are local to
\* NodeClassification.forward; the second run, with equal parameters, computes
\* the same logits
Forward ==
  /\ pc = "forward"
  /\ \E lg \in ForwardOutputs :
       /\ loss' = LossFcn(lg, labels, train_idx)
       /\ lossB' = LossFcn(lg, labelsB, train_idx)
  /\ pc' = "zero_grad"
  /\ UNCHANGED <<buildVars, dataVars, idxVars, optVars, logits, it, epoch, training,
                 acc, out>>

\* optimizer.zero_grad()
ZeroGrad ==
  /\ pc = "zero_grad"
  /\ grad' = <<>>
  /\ gradB' = <<>>
  /\ pc' = "backward"
  /\ UNCHANGED <<buildVars, dataVars, idxVars, params, paramsB, lossVars, logits, it,
                 epoch, training, acc, out>>

\* loss.backward(): the gradients of the loss are added to the buffers
Backward ==
  /\ pc = "backward"
  /\ grad' = Append(grad, loss)
  /\ gradB' = Append(gradB, lossB)
  /\ pc' = "step"
  /\ UNCHANGED <<buildVars, dataVars, idxVars, params, paramsB, lossVars, logits, it,
                 epoch, training, acc, out>>

\* optimizer.step()
OptimizerStep ==
  /\ pc = "step"
  /\ params' = Append(params, grad)
  /\ paramsB' = Append(paramsB, gradB)
  /\ pc' = "val_eval"
  /\ UNCHANGED <<buildVars, dataVars, idxVars, grad, gradB, lossVars, logits, it, epoch,
                 training, acc, out>>

\* acc = NCEvaluate(model, g, features, labels, val_idx)
ValEval == NCEvaluate_Eval("val_eval", "val_forward")

ValForward == NCEvaluate_Forward("val_forward", "val_score")

\* the validation accuracy is taken over train_idx
ValScoreOnTrain == NCEvaluate_Score("val_score", train_idx, "print_epoch")

ValScore == NCEvaluate_Score("val_score", val_idx, "print_epoch")

\* print("Epoch {:05d} | Loss {:.4f} | Accuracy {:.4f}".format(epoch, loss.item(), acc)):
\* a line is the values it is formatted from
PrintEpoch ==
  /\ pc = "print_epoch"
  /\ out' = Append(out, <<"epoch", epoch, loss, acc>>)
  /\ pc' = "loop"
  /\ UNCHANGED <<buildVars, dataVars, idxVars, optVars, lossVars, logits, it, epoch,
                 training, acc>>

\* print()
PrintBlank ==
  /\ pc = "print_blank"
  /\ out' = Append(out, <<"blank">>)
  /\ pc' = "test_eval"
  /\ UNCHANGED <<buildVars, dataVars, idxVars, optVars, lossVars, logits, it, epoch,
                 training, acc>>

\* acc = NCEvaluate(model, g, features, labels, test_idx)
TestEval == NCEvaluate_Eval("test_eval", "test_forward")

TestForward == NCEvaluate_Forward("test_forward", "test_score")

TestScore == NCEvaluate_Score("test_score", test_idx, "print_test")

\* print("Test Accuracy {:.4f}".format(acc))
PrintTest ==
  /\ pc = "print_test"
  /\ out' = Append(out, <<"test", acc>>)
  /\ pc' = "done"
  /\ UNCHANGED <<buildVars, dataVars, idxVars, optVars, lossVars, logits, it, epoch,
                 training, acc>>

\* ------------------------------------------------------- initial states
\* no model is being constructed
BuildIdle ==
  /\ n_layers = NLayersConfigured
  /\ layers = <<>>
  /\ i = 0
  /\ g = {}
  /\ h = NoH

\* the state of a fresh model and optimizer, before the training cell
TrainIdle ==
  /\ it = 0
  /\ epoch = -1
  /\ training = TRUE
  /\ params = <<>>
  /\ grad = <<>>
  /\ loss = <<>>
  /\ paramsB = <<>>
  /\ gradB = <<>>
  /\ lossB = <<>>
  /\ acc = NoAcc
  /\ out = <<>>

NoIdx ==
  /\ train_idx = <<>>
  /\ val_idx = <<>>
  /\ test_idx = <<>>

\* the mask of one part of the split: node 0 is the training node, node 1 the
\* validation node, node 2 the test node (s = 0; s turns the parts); later nodes
\* are in no part, as most nodes of the dataset are
SplitMask(s, part) == [v \in Nodes |-> IF v <= 2 /\ (v + s) % 3 = part THEN 1 ELSE 0]

\* other labels on every node outside the training mask
OtherLabels(lab, mask) ==
  [v \in Nodes |-> IF mask[v] > 0 THEN lab[v] ELSE (lab[v] + 1) % Cardinality(Classes)]

\* The notebook from the index cell on: a dataset with three non-empty disjoint
\* masks, any labels on the nodes of the split (class 0 on the nodes in no part,
\* whose labels the run never reads), any epoch count; the second run's labels
\* are the first's on the training nodes and differ from them on every other node.
Init ==
  /\ pc = "index"
  /\ BuildIdle
  /\ TrainIdle
  /\ NoIdx
  /\ logits = NoLogits
  /\ train_mask = SplitMask(0, 0)
  /\ val_mask = SplitMask(0, 1)
  /\ test_mask = SplitMask(0, 2)
  /\ labels \in [Nodes -> Classes]
  /\ \A v \in Nodes : v > 2 => labels[v] = 0
  /\ labelsB = OtherLabels(labels, train_mask)
  /\ n_epochs \in 0 .. MaxEpochs

Next ==
  \/ MakeIndex
  \/ LoopNext
  \/ LoopExit
  \/ ModelTrain
  \/ Forward
  \/ ZeroGrad
  \/ Backward
  \/ OptimizerStep
  \/ ValEval
  \/ ValForward
  \/ ValScore
  \/ PrintEpoch
  \/ PrintBlank
  \/ TestEval
  \/ TestForward
  \/ TestScore
  \/ PrintTest

Spec == Init /\ [][Next]_vars

\* GraphSAGEModel(...) constructed with any layer count and run over any chain graph
InitBuild ==
  /\ pc = "ctor_input"
  /\ n_layers \in 0 .. MaxLayers
  /\ layers = <<>>
  /\ i = 0
  /\ g \in SUBSET ChainEdges
  /\ h = NoH
  /\ TrainIdle
  /\ NoIdx
  /\ logits = NoLogits
  /\ train_mask = SplitMask(0, 0)
  /\ val_mask = SplitMask(0, 1)
  /\ test_mask = SplitMask(0, 2)
  /\ labels = [v \in Nodes |-> 0]
  /\ labelsB = labels
  /\ n_epochs = 0

NextBuild ==
  \/ InitInputLayer
  \/ InitHiddenLayer
  \/ InitOutputLayer
  \/ ForwardCall
  \/ ForwardLayer
  \/ ForwardReturn

SpecBuild == InitBuild /\ [][NextBuild]_vars

\* the index cell on any three masks
InitIndex ==
  /\ pc = "index"
  /\ BuildIdle
  /\ TrainIdle
  /\ NoIdx
  /\ logits = NoLogits
  /\ train_mask \in [Nodes -> MaskVals]
  /\ val_mask \in [Nodes -> MaskVals]
  /\ test_mask \in [Nodes -> MaskVals]
  /\ labels = [v \in Nodes |-> 0]
  /\ labelsB = labels
  /\ n_epochs = 0

NextIndex == MakeIndex

SpecIndex == InitIndex /\ [][NextIndex]_vars

\* NCEvaluate's scoring on any logits, any labels and any index array
InitEval ==
  /\ pc = "test_score"
  /\ BuildIdle
  /\ it = 0
  /\ epoch = -1
  /\ training = FALSE
  /\ params = <<>>
  /\ grad = <<>>
  /\ loss = <<>>
  /\ paramsB = <<>>
  /\ gradB = <<>>
  /\ lossB = <<>>
  /\ acc = NoAcc
  /\ out = <<>>
  /\ train_mask = [v \in Nodes |-> 0]
  /\ val_mask = [v \in Nodes |-> 0]
  /\ test_mask \in [Nodes -> MaskVals]
  /\ train_idx = <<>>
  /\ val_idx = <<>>
  /\ test_idx = Where(test_mask)
  /\ logits \in ForwardOutputs
  /\ labels \in [Nodes -> Classes]
  /\ labelsB = labels
  /\ n_epochs = 0

NextEval == TestScore

SpecEval == InitEval /\ [][NextEval]_vars

\* ------------------------------------------------------------ properties
Built == pc \in {"constructed", "forward_layers", "forward_returned"}

\* the layers are an input layer, `hidden` hidden layers and an output layer
LayerStack(hidden) ==
  /\ Len(layers) = hidden + 2
  /\ layers[1] = InputLayer
  /\ layers[Len(layers)] = OutputLayer
  /\ \A k \in 2 .. (Len(layers) - 1) : layers[k] = HiddenLayer

\* C1 as stated: for every n_layers >= 0 the constructed model holds n_layers + 1
\* layers: one input layer, n_layers - 1 hidden layers and one output layer.
C1_LayersPlusOneFromZero == Built => (Len(layers) = n_layers + 1 /\ LayerStack(n_layers - 1))

\* C1 amended: for every n_layers >= 1 the constructed model holds n_layers + 1
\* layers (input, n_layers - 1 hidden, output); for n_layers = 0 it holds 2 layers,
\* the input and the output layer.
C1_LayersPlusOne ==
  Built => IF n_layers >= 1
           THEN Len(layers) = n_layers + 1 /\ LayerStack(n_layers - 1)
           ELSE Len(layers) = 2 /\ LayerStack(0)

C1_Witness == pc = "constructed" /\ n_layers = MaxLayers /\ Len(layers) = MaxLayers + 1

RECURSIVE WithinHops(_, _, _)
WithinHops(gr, v, k) ==
  IF k = 0 THEN {v}
  ELSE LET S == WithinHops(gr, v, k - 1) IN S \cup UNION {Neighbours(gr, u) : u \in S}

\* C9: the model created with n_layers = 2 is a 2-layer model: its forward pass
\* applies exactly 2 layers, and each node's output draws on nodes within 2 hops.
C9_TwoLayerModel ==
  (pc = "forward_returned" /\ n_layers = NLayersConfigured) =>
    /\ h.applied = 2
    /\ \A v \in ChainNodes : h.dep[v] \subseteq WithinHops(g, v, 2)

Range(seq) == {seq[k] : k \in 1 .. Len(seq)}

IndexOf(idx, mask) ==
  /\ Range(idx) = {v \in Nodes : mask[v] > 0}
  /\ \A k \in 1 .. Len(idx) : idx[k] >= 0 /\ idx[k] < NumNodes

\* C4: train_idx, val_idx and test_idx hold exactly the positions where their mask
\* is > 0, and every index lies in [0, node_count).
C4_IndexSetsInRange ==
  pc = "loop" => /\ IndexOf(train_idx, train_mask)
                 /\ IndexOf(val_idx, val_mask)
                 /\ IndexOf(test_idx, test_mask)

C4_Witness ==
  pc = "loop" /\ Len(train_idx) = NumNodes /\ Len(val_idx) = 1 /\ test_idx = <<NumNodes - 1>>

InUnit(a) == Len(a) = 2 /\ a[2] > 0 /\ 0 <= a[1] /\ a[1] <= a[2]

\* C3 as stated: for every index set NCEvaluate is called with, it returns an
\* accuracy in [0,1].
C3_AccuracyInUnitAnyIndex == pc # "test_score" => (pc = "print_test" /\ InUnit(acc))

\* C3 amended: for every non-empty index set NCEvaluate returns an accuracy in
\* [0,1]; for the empty index set it raises ZeroDivisionError and returns nothing.
C3_AccuracyInUnit ==
  pc # "test_score" => IF Len(test_idx) > 0
                       THEN pc = "print_test" /\ InUnit(acc)
                       ELSE pc = "raised" /\ acc = NoAcc

C3_Witness == pc = "print_test" /\ acc = <<1, 1>> /\ Len(test_idx) = NumNodes

\* class c is the arg-max of the row: no class is larger, no earlier class is equal
IsTop(row, c) == \A d \in Classes : row[d] < row[c] \/ (row[d] = row[c] /\ d >= c)

Hits(lg, lab, S) == {v \in S : IsTop(lg[v], lab[v])}

\* the number a is hits / size
IsFraction(a, hits, size) == Len(a) = 2 /\ a[2] > 0 /\ a[1] * size = hits * a[2]

\* C8: for a non-empty index set NCEvaluate returns the number of nodes of the set
\* whose arg-max class equals their label, divided by the size of the set.
C8_TopOneAccuracy ==
  [][(pc = "test_score" /\ Len(test_idx) > 0) =>
       /\ pc' = "print_test"
       /\ IsFraction(acc', Cardinality(Hits(logits, labels, Range(test_idx))),
                     Len(test_idx))]_vars

C8_Witness ==
  /\ pc = "print_test"
  /\ Len(test_idx) = 2
  /\ acc = <<1, 2>>
  /\ labels[test_idx[1]] # labels[test_idx[2]]

InNCEvaluate ==
  pc \in {"val_eval", "val_forward", "val_score", "test_eval", "test_forward", "test_score"}

\* C2: no step of NCEvaluate changes the model parameters, in any evaluation call
\* during or after the training loop.
C2_EvaluateKeepsParameters == [][InNCEvaluate => params' = params]_vars

C2_Witness == pc = "print_test" /\ Len(params) = MaxEpochs /\ params[1] # params[MaxEpochs]

InEpoch == pc \in {"train_mode", "forward", "zero_grad", "backward", "step"}

AfterLoop ==
  pc \in {"print_blank", "test_eval", "test_forward", "test_score", "print_test", "done"}

\* C5: the loop runs n_epochs epochs and stops; each epoch updates the parameters
\* once, with the gradient of that epoch's loss alone (forward, gradient reset,
\* backward, step); after the loop there are n_epochs updates and no more follow.
C5_OneUpdatePerEpoch ==
  /\ it <= n_epochs
  /\ Len(params) = IF InEpoch THEN it - 1 ELSE it
  /\ \A k \in 1 .. Len(params) : Len(params[k]) = 1
  /\ \A k \in 1 .. Len(params) : k <= Len(out) => params[k] = <<out[k][3]>>
  /\ pc = "backward" => grad = <<>>
  /\ pc = "step" => grad = <<loss>>
  /\ pc = "val_eval" => params[it] = <<loss>>
  /\ AfterLoop => it = n_epochs /\ Len(params) = n_epochs

C5_Witness == pc = "done" /\ n_epochs = MaxEpochs /\ Len(params) = MaxEpochs

\* the k-th line is the log line of epoch k - 1, with the loss that epoch trained on
EpochLine(k) ==
  /\ Len(out[k]) = 4
  /\ out[k][1] = "epoch"
  /\ out[k][2] = k - 1
  /\ params[k] = <<out[k][3]>>

\* the call of NCEvaluate scoring at `at` returns the accuracy of its logits over idx
ScoresOver(at, idx) ==
  pc = at => IsFraction(acc', Cardinality(Hits(logits, labels, Range(idx))), Len(idx))

\* C6 as stated: the output is n_epochs epoch lines followed by the test-accuracy line.
C6_EpochLinesThenTest ==
  pc = "done" => /\ Len(out) = n_epochs + 1
                 /\ \A k \in 1 .. n_epochs : EpochLine(k)
                 /\ out[n_epochs + 1][1] = "test"

\* the lines printed so far: epoch lines 0 .. n_epochs-1 in order, each with its
\* epoch's loss and the accuracy just returned, then an empty line, then the test
\* line with the accuracy just returned
C6_Lines ==
  /\ Len(out) = IF pc = "done" THEN n_epochs + 2
                ELSE IF pc \in {"test_eval", "test_forward", "test_score", "print_test"}
                     THEN n_epochs + 1
                ELSE IF InEpoch \/ pc \in {"val_eval", "val_forward", "val_score", "print_epoch"}
                     THEN it - 1
                ELSE it
  /\ \A k \in 1 .. Len(out) :
       /\ k <= n_epochs => EpochLine(k)
       /\ k = n_epochs + 1 => out[k] = <<"blank">>
       /\ k = n_epochs + 2 => Len(out[k]) = 2 /\ out[k][1] = "test"
  /\ (pc = "loop" /\ it > 0) => out[it] = <<"epoch", it - 1, loss, acc>>
  /\ pc = "done" => out[Len(out)] = <<"test", acc>>

\* C6 amended: the output is n_epochs epoch lines (indices 0 .. n_epochs-1 in order,
\* each with its epoch's loss and the accuracy NCEvaluate computed over val_idx),
\* then one empty line, then one test-accuracy line (the accuracy computed over
\* test_idx), printed after the last epoch line.
C6_EpochLinesBlankTest ==
  /\ []C6_Lines
  /\ [][ScoresOver("val_score", val_idx) /\ ScoresOver("test_score", test_idx)]_vars

C6_Witness ==
  /\ pc = "done"
  /\ n_epochs = MaxEpochs
  /\ out[1][4] # out[MaxEpochs][4]
  /\ out[MaxEpochs][4] # out[MaxEpochs + 2][2]

\* C7: the loss and the parameters do not depend on the labels outside train_idx:
\* the run with labels and the run with labelsB have the same loss in every epoch
\* and the same parameters after every update.
C7_LossIgnoresOtherLabels == loss = lossB /\ grad = gradB /\ params = paramsB

C7_Witness ==
  /\ pc = "done"
  /\ Len(paramsB) = MaxEpochs
  /\ \A v \in Nodes : train_mask[v] = 0 => labelsB[v] # labels[v]

\* C10: every training forward pass runs in training mode, every forward pass of
\* NCEvaluate runs in inference mode, NCEvaluate returns with the model still in
\* inference mode (so each later epoch starts in inference mode and model.train()
\* switches back before its forward pass), and the model is in inference mode at
\* the end of the run.
C10_ModeAlternates ==
  /\ pc \in {"forward", "zero_grad"} => training
  /\ pc \in {"val_forward", "val_score", "test_forward", "test_score"} => ~training
  /\ pc \in {"print_epoch", "print_test", "done"} => ~training
  /\ (pc = "loop" /\ it > 0) => ~training
  /\ (pc = "train_mode" /\ epoch >= 1) => ~training

C10_Witness == pc = "forward" /\ epoch = 1 /\ training /\ Len(out) = 1

====
